---- MODULE Spec2Model ----
(***************************************************************************)
(* Session / frame life cycle of the pyopenxr example programs.           *)
(*                                                                         *)
(* Five of the example programs are modelled, each as the control flow of *)
(* its main thread (variable pc) over the program's own variables:        *)
(*   "hello"    hello_xr/main.py + hello_xr/openxr_program.py              *)
(*   "ctx"      xr_context_foo.py (XrContext, SessionManager,              *)
(*              FrameManager, main)                                        *)
(*   "pink"     pink_world_one_file.py                                     *)
(*   "headless" headless.py                                                *)
(*   "hang"     where_does_it_hang.py                                      *)
(* The OpenXR runtime is the environment: it owns the session's real      *)
(* state, moves it along the session state graph and queues one           *)
(* state-changed event per move.                                           *)
(*                                                                         *)
(* A second specification, SelectSpec, applies the programs' choice of the *)
(* color swapchain format to the lists of formats a runtime may enumerate. *)
(***************************************************************************)
EXTENDS Integers, Sequences, FiniteSets

\* ------------------------------------------------------------------ bounds

\* Capacity of the runtime's event queue in the model.
MaxQueue == 2
\* How often hello_xr's main may create a new instance after the first one.
MaxRestarts == 1
\* Iterations of a counted frame loop (range(500), range(30), frame_count > 100).
FrameLimit == 2
\* Iterations of a counted wind-down loop (range(20)).
WindDownLimit == 2
\* Longest list of swapchain formats the runtime enumerates in the model.
MaxFormats == 2

\* ------------------------------------------------------------- constants

\* One swapchain per view; the programs use the stereo configuration.
NumViews == 2

Programs == {"hello", "ctx", "pink", "headless", "hang"}

SessionStates ==
    {"UNKNOWN", "IDLE", "READY", "SYNCHRONIZED", "VISIBLE", "FOCUSED",
     "STOPPING", "LOSS_PENDING", "EXITING"}

\* The states in which pink_world_one_file.py and where_does_it_hang.py run frames.
FrameStates == {"READY", "SYNCHRONIZED", "VISIBLE", "FOCUSED"}

\* Events of the runtime's queue: a session state change, an instance loss,
\* or any other event type.
StateEvent(s) == [type |-> "SESSION_STATE_CHANGED", state |-> s]
InstanceLossEvent == [type |-> "INSTANCE_LOSS_PENDING", state |-> "UNKNOWN"]
OtherEvent == [type |-> "OTHER", state |-> "UNKNOWN"]
NoEvent == [type |-> "NONE", state |-> "UNKNOWN"]

VARIABLES
    prog,               \* which example program runs
    pc,                 \* position of the program's main thread
    \* ---- the runtime (environment)
    rtState,            \* the session's state in the runtime
    rtRunning,          \* begin_session accepted and end_session not yet
    rtExitRequested,    \* request_exit_session accepted
    rtAlive,            \* the session handle exists
    queue,              \* events not yet polled
    \* ---- the program
    session_state,      \* the program's mirror of the session state
    session_running,    \* session_running / is_running / session_is_running
    exit_render_loop,   \* exit_render_loop / exit_frame_loop
    request_restart,    \* request_restart of the event handler / poll_events
    main_request_restart, \* hello_xr main's request_restart
    is_headless,        \* SessionManager.is_headless
    should_render,      \* frame_state.should_render of the current frame
    view_index,         \* index of the view being rendered
    poses_valid,        \* the view poses located in the current frame are valid
    layers,             \* the layer list of the current frame
    frame_count,        \* iterations of a counted frame loop
    wind_count,         \* iterations of a wind-down loop
    restarts,           \* instances created after the first
    key_press_event,    \* hello_xr's threading.Event
    window_closed,      \* what graphics_plugin.poll_events last returned
    exc,                \* exception in flight or unhandled ("none" if none)
    \* ---- observations of the last step
    call,               \* the OpenXR call the last step made
    handled,            \* the event the last step handled
    \* ---- observations of the session
    sessionOpen,        \* begin_session calls minus end_session calls
    frameOpen,          \* begin_frame calls minus end_frame calls
    frameEnds,          \* end_frame calls since the last begin_frame
    imageOut,           \* per swapchain: acquires minus releases
    imageReleased,      \* per swapchain: an image has been released
    sessionEnded,       \* end_session has been called on the session
    imagePhase,         \* per swapchain: how far its image is through the protocol
    pollSawLoss,        \* the current poll_events call handled LOSS_PENDING
    \* ---- handles and resources
    created,            \* what the program has created, in the order of creation
    released,           \* what the program has released, in the order of release
    \* ---- the choice of the color swapchain format
    runtime_formats,    \* xr.enumerate_swapchain_formats, in the runtime's order
    color_swapchain_format  \* the format selected ("none" before the selection)

rtVars == <<rtState, rtRunning, rtExitRequested, rtAlive, queue>>
flagVars == <<session_state, session_running, exit_render_loop, request_restart>>
loopVars == <<frame_count, wind_count, restarts>>
frameVars == <<should_render, view_index, poses_valid, layers>>
obsVars == <<sessionOpen, frameOpen, frameEnds, imageOut, imageReleased,
            sessionEnded, imagePhase>>
handleVars == <<created, released>>
formatVars == <<runtime_formats, color_swapchain_format>>
vars == <<prog, pc, rtState, rtRunning, rtExitRequested, rtAlive, queue,
          session_state, session_running, exit_render_loop, request_restart,
          main_request_restart, is_headless, should_render, view_index,
          poses_valid, layers, frame_count, wind_count, restarts, key_press_event, window_closed, exc,
          call, handled, sessionOpen, frameOpen, frameEnds, imageOut,
          imageReleased, sessionEnded, imagePhase, pollSawLoss,
          created, released, runtime_formats, color_swapchain_format>>

Views == 0 .. (NumViews - 1)

\* The elements of a sequence, and a sequence back to front.
Range(seq) == {seq[i] : i \in 1 .. Len(seq)}
Reverse(seq) == [i \in 1 .. Len(seq) |-> seq[Len(seq) + 1 - i]]

\* What hello_xr's main has created when the frame loop starts, in the order
\* of creation: create_instance, initialize_session (the session, then
\* initialize_actions, create_visualized_spaces and the app space) and
\* create_swapchains.  The other programs' handles are not followed.
Created(p) ==
    IF p = "hello"
    THEN <<"instance", "session", "action_set", "hand_space_left",
           "hand_space_right", "visualized_space_0", "visualized_space_1",
           "app_space", "swapchain_0", "swapchain_1">>
    ELSE <<>>

\* ------------------------------------------------ the runtime (environment)

\* The session state graph the runtime follows:
\* IDLE -> READY -> SYNCHRONIZED -> VISIBLE -> FOCUSED -> STOPPING -> {EXITING, IDLE},
\* any -> LOSS_PENDING -> EXITING.  The runtime leaves READY only once the
\* session has been begun, and leaves STOPPING only once it has been ended.
RuntimeCanMove(s, t) ==
    \/ s = "IDLE" /\ t = "READY" /\ ~rtRunning
    \/ s = "READY" /\ t = "SYNCHRONIZED" /\ rtRunning
    \/ s = "SYNCHRONIZED" /\ t = "VISIBLE" /\ rtRunning
    \/ s = "VISIBLE" /\ t = "FOCUSED" /\ rtRunning
    \/ s = "FOCUSED" /\ t = "STOPPING" /\ rtRunning
    \/ s = "STOPPING" /\ t = "IDLE" /\ ~rtRunning /\ ~rtExitRequested
    \/ s = "STOPPING" /\ t = "EXITING" /\ ~rtRunning
    \/ s \notin {"LOSS_PENDING", "EXITING"} /\ t = "LOSS_PENDING"
    \/ s = "LOSS_PENDING" /\ t = "EXITING"

\* The program's main thread has not finished.
Live == pc \notin {"done", "crashed"}

\* What every step of the environment leaves alone.
EnvUnchanged ==
    /\ call' = "none"
    /\ handled' = NoEvent
    /\ UNCHANGED <<prog, pc, flagVars, main_request_restart, is_headless,
                   frameVars, loopVars, exc, obsVars, pollSawLoss,
                   handleVars, formatVars, window_closed>>

\* The runtime moves the session to state t and queues the event.
RuntimeStateChange ==
    /\ Live /\ rtAlive
    /\ Len(queue) < MaxQueue
    /\ \E t \in SessionStates :
          /\ RuntimeCanMove(rtState, t)
          /\ rtState' = t
          /\ queue' = Append(queue, StateEvent(t))
    /\ UNCHANGED <<rtRunning, rtExitRequested, rtAlive, key_press_event>>
    /\ EnvUnchanged

\* The runtime queues an event of another type.
RuntimeOtherEvent ==
    /\ Live /\ pc # "enter"
    /\ Len(queue) < MaxQueue
    /\ \E e \in {InstanceLossEvent, OtherEvent} :
          /\ \A i \in 1 .. Len(queue) : queue[i] # e
          /\ queue' = Append(queue, e)
    /\ UNCHANGED <<rtState, rtRunning, rtExitRequested, rtAlive, key_press_event>>
    /\ EnvUnchanged

\* The swapchain protocol: the phase a swapchain's image must be in for a
\* call, and the phase the call takes it to.
NextPhase ==
    [acquire_swapchain_image |-> [from |-> "released", to |-> "acquired"],
     wait_swapchain_image |-> [from |-> "acquired", to |-> "waited"],
     render_view |-> [from |-> "waited", to |-> "rendered"],
     release_swapchain_image |-> [from |-> "rendered", to |-> "released"]]

\* The effect of one OpenXR call on the runtime and on the observations.
\* c is the call made ("none" for a step that makes no call).
XrCall(c) ==
    /\ call' = c
    /\ rtRunning' = CASE c = "begin_session" -> TRUE
                      [] c \in {"end_session", "destroy_session"} -> FALSE
                      [] OTHER -> rtRunning
    /\ rtAlive' = IF c = "destroy_session" THEN FALSE ELSE rtAlive
    /\ rtExitRequested' = IF c = "request_exit_session" THEN TRUE ELSE rtExitRequested
    /\ sessionOpen' = CASE c = "begin_session" -> sessionOpen + 1
                        [] c = "end_session" -> sessionOpen - 1
                        [] OTHER -> sessionOpen
    /\ frameOpen' = CASE c = "begin_frame" -> frameOpen + 1
                      [] c = "end_frame" -> frameOpen - 1
                      [] OTHER -> frameOpen
    /\ frameEnds' = CASE c = "begin_frame" -> 0
                      [] c = "end_frame" -> frameEnds + 1
                      [] OTHER -> frameEnds
    /\ imageOut' = CASE c = "acquire_swapchain_image" ->
                          [imageOut EXCEPT ![view_index] = @ + 1]
                     [] c = "release_swapchain_image" ->
                          [imageOut EXCEPT ![view_index] = @ - 1]
                     [] OTHER -> imageOut
    /\ imageReleased' = IF c = "release_swapchain_image"
                        THEN [imageReleased EXCEPT ![view_index] = TRUE]
                        ELSE imageReleased
    /\ sessionEnded' = (sessionEnded \/ c = "end_session")
    /\ imagePhase' =
          IF c \in DOMAIN NextPhase
          THEN [imagePhase EXCEPT ![view_index] =
                   IF @ = NextPhase[c].from THEN NextPhase[c].to ELSE "error"]
          ELSE imagePhase

\* A freshly created session: the runtime has queued its IDLE event.
NewSession ==
    /\ rtState' = "IDLE"
    /\ rtRunning' = FALSE
    /\ rtExitRequested' = FALSE
    /\ rtAlive' = TRUE
    /\ queue' = <<StateEvent("IDLE")>>
    /\ sessionOpen' = 0
    /\ frameOpen' = 0
    /\ frameEnds' = 0
    /\ imageOut' = [v \in Views |-> 0]
    /\ imageReleased' = [v \in Views |-> FALSE]
    /\ sessionEnded' = FALSE
    /\ imagePhase' = [v \in Views |-> "released"]

\* The program's initial mirror of the session state.
InitialSessionState(p) == IF p = "pink" THEN "IDLE" ELSE "UNKNOWN"

Init ==
    /\ prog \in Programs
    /\ pc = (IF prog = "ctx" THEN "enter" ELSE "loop")
    /\ rtState = "IDLE"
    /\ rtRunning = FALSE
    /\ rtExitRequested = FALSE
    /\ rtAlive = (prog # "ctx")
    /\ queue = (IF prog = "ctx" THEN <<>> ELSE <<StateEvent("IDLE")>>)
    /\ session_state = InitialSessionState(prog)
    /\ session_running = FALSE
    /\ exit_render_loop = FALSE
    /\ request_restart = FALSE
    /\ main_request_restart = FALSE
    /\ is_headless \in (IF prog = "ctx" THEN BOOLEAN ELSE {FALSE})
    /\ should_render = FALSE
    /\ view_index = 0
    /\ poses_valid = TRUE
    /\ layers = <<>>
    /\ frame_count = 0
    /\ wind_count = 0
    /\ restarts = 0
    /\ key_press_event = FALSE
    /\ window_closed = FALSE
    /\ exc = "none"
    /\ call = "none"
    /\ handled = NoEvent
    /\ sessionOpen = 0
    /\ frameOpen = 0
    /\ frameEnds = 0
    /\ imageOut = [v \in Views |-> 0]
    /\ imageReleased = [v \in Views |-> FALSE]
    /\ sessionEnded = FALSE
    /\ imagePhase = [v \in Views |-> "released"]
    /\ pollSawLoss = FALSE
    /\ created = Created(prog)
    /\ released = <<>>
    /\ runtime_formats = <<>>
    /\ color_swapchain_format = "none"

\* ------------------------------------------------------- shapes of a step

\* A program step to newpc that makes the OpenXR call c and may poll the
\* window or create or release handles.
StepW(newpc, c) ==
    /\ pc' = newpc
    /\ XrCall(c)
    /\ UNCHANGED <<prog, is_headless, rtState, key_press_event, formatVars>>

\* A program step to newpc that makes the OpenXR call c and may create or
\* release handles.
StepH(newpc, c) ==
    /\ StepW(newpc, c)
    /\ UNCHANGED window_closed

\* A program step to newpc that makes the OpenXR call c.
Step(newpc, c) ==
    /\ StepH(newpc, c)
    /\ UNCHANGED handleVars

\* A step that handles no event and changes none of the program's variables
\* but its handles.
PlainH(newpc, c) ==
    /\ StepH(newpc, c)
    /\ handled' = NoEvent
    /\ UNCHANGED <<queue, flagVars, main_request_restart, frameVars, loopVars,
                   exc, pollSawLoss>>

\* A step that handles no event and changes none of the program's variables.
Plain(newpc, c) ==
    /\ PlainH(newpc, c)
    /\ UNCHANGED handleVars

\* A step in which exception e is raised and starts to unwind.
Raise(newpc, e) ==
    /\ Step(newpc, "none")
    /\ handled' = NoEvent
    /\ exc' = e
    /\ UNCHANGED <<queue, flagVars, main_request_restart, frameVars, loopVars,
                   pollSawLoss>>

\* xr.locate_views has returned: the poses are valid and the views are
\* rendered, or they are not and nothing is.
Located(render, skip, valid) ==
    /\ Step(IF valid THEN render ELSE skip, "none")
    /\ handled' = NoEvent
    /\ poses_valid' = valid
    /\ UNCHANGED <<queue, flagVars, main_request_restart, should_render,
                   view_index, layers, loopVars, exc, pollSawLoss>>

\* What an event handler leaves behind: the mirrored state, the running flag,
\* the two loop flags and the call it made.
Outcome(st, run, ex, rs, c) ==
    [state |-> st, running |-> run, exit |-> ex, restart |-> rs, call |-> c]

\* A step that takes the head of the queue and applies a handler's outcome r.
Handle(newpc, r) ==
    /\ queue # <<>>
    /\ Step(newpc, r.call)
    /\ handled' = Head(queue)
    /\ queue' = Tail(queue)
    /\ session_state' = r.state
    /\ session_running' = r.running
    /\ exit_render_loop' = r.exit
    /\ request_restart' = r.restart
    /\ pollSawLoss' = (pollSawLoss \/ (Head(queue).type = "SESSION_STATE_CHANGED"
                                        /\ Head(queue).state = "LOSS_PENDING"))
    /\ UNCHANGED <<main_request_restart, frameVars, loopVars, exc>>

\* The outcome of a handler that ignores the event.
Ignored == Outcome(session_state, session_running, exit_render_loop,
                   request_restart, "none")

\* ------------------------------------------------------------- hello_xr

\* handle_session_state_changed_event with begin_session issued on
\* SYNCHRONIZED as well as on READY.
handle_session_state_changed_event_BeginOnSynchronized(event, exit, restart) ==
    LET s == event.state IN
    CASE s \in {"READY", "SYNCHRONIZED"} ->
            Outcome(s, TRUE, exit, restart, "begin_session")
      [] s = "STOPPING" -> Outcome(s, FALSE, exit, restart, "end_session")
      [] s = "EXITING" -> Outcome(s, session_running, TRUE, FALSE, "none")
      [] s = "LOSS_PENDING" -> Outcome(s, session_running, TRUE, TRUE, "none")
      [] OTHER -> Outcome(s, session_running, exit, restart, "none")

\* handle_session_state_changed_event with LOSS_PENDING treated like EXITING.
handle_session_state_changed_event_NoRestartOnLoss(event, exit, restart) ==
    LET s == event.state IN
    CASE s = "READY" -> Outcome(s, TRUE, exit, restart, "begin_session")
      [] s = "STOPPING" -> Outcome(s, FALSE, exit, restart, "end_session")
      [] s \in {"EXITING", "LOSS_PENDING"} ->
            Outcome(s, session_running, TRUE, FALSE, "none")
      [] OTHER -> Outcome(s, session_running, exit, restart, "none")

\* handle_session_state_changed_event that does not mirror STOPPING.
handle_session_state_changed_event_StaleOnStopping(event, exit, restart) ==
    LET s == event.state IN
    CASE s = "READY" -> Outcome(s, TRUE, exit, restart, "begin_session")
      [] s = "STOPPING" -> Outcome(session_state, FALSE, exit, restart, "end_session")
      [] s = "EXITING" -> Outcome(s, session_running, TRUE, FALSE, "none")
      [] s = "LOSS_PENDING" -> Outcome(s, session_running, TRUE, TRUE, "none")
      [] OTHER -> Outcome(s, session_running, exit, restart, "none")

\* handle_session_state_changed_event that leaves session_running set on
\* STOPPING.
handle_session_state_changed_event_StaysRunning(event, exit, restart) ==
    LET s == event.state IN
    CASE s = "READY" -> Outcome(s, TRUE, exit, restart, "begin_session")
      [] s = "STOPPING" -> Outcome(s, session_running, exit, restart, "end_session")
      [] s = "EXITING" -> Outcome(s, session_running, TRUE, FALSE, "none")
      [] s = "LOSS_PENDING" -> Outcome(s, session_running, TRUE, TRUE, "none")
      [] OTHER -> Outcome(s, session_running, exit, restart, "none")

\* OpenXRProgram.handle_session_state_changed_event, for an event of the
\* program's own session.
handle_session_state_changed_event(event, exit, restart) ==
    LET s == event.state IN
    CASE s = "READY" -> Outcome(s, TRUE, exit, restart, "begin_session")
      [] s = "STOPPING" -> Outcome(s, FALSE, exit, restart, "end_session")
      [] s = "EXITING" -> Outcome(s, session_running, TRUE, FALSE, "none")
      [] s = "LOSS_PENDING" -> Outcome(s, session_running, TRUE, TRUE, "none")
      [] OTHER -> Outcome(s, session_running, exit, restart, "none")

\* main: the test of the frame loop and graphics_plugin.poll_events; on
\* neither a key press nor a closed window, program.poll_events starts, with
\* its two flags False.
HelloLoop ==
    /\ prog = "hello" /\ pc = "loop"
    /\ \/ /\ key_press_event
          /\ Plain("exit", "none")
       \/ /\ ~key_press_event
          /\ \E closed \in BOOLEAN :
                /\ window_closed' = closed
                /\ StepW(IF closed THEN "exit" ELSE "poll_events", "none")
                /\ handled' = NoEvent
                /\ exit_render_loop' = (closed /\ exit_render_loop)
                /\ request_restart' = (closed /\ request_restart)
                /\ pollSawLoss' = (closed /\ pollSawLoss)
                /\ UNCHANGED <<queue, session_state, session_running,
                               main_request_restart, frameVars, loopVars, exc,
                               handleVars>>

\* OpenXRProgram.poll_events: one turn of its loop, or its return to main.
HelloPollEvents ==
    /\ prog = "hello" /\ pc = "poll_events"
    /\ IF queue = <<>>
       THEN /\ Step("polled", "none")
            /\ handled' = NoEvent
            /\ main_request_restart' = request_restart
            /\ UNCHANGED <<queue, flagVars, frameVars, loopVars, exc, pollSawLoss>>
       ELSE LET event == Head(queue) IN
            CASE event.type = "INSTANCE_LOSS_PENDING" ->
                    /\ Step("polled", "none")
                    /\ handled' = event
                    /\ queue' = Tail(queue)
                    /\ exit_render_loop' = TRUE
                    /\ request_restart' = TRUE
                    /\ main_request_restart' = TRUE
                    /\ UNCHANGED <<session_state, session_running, frameVars,
                                   loopVars, exc, pollSawLoss>>
              [] event.type = "SESSION_STATE_CHANGED" ->
                    Handle("poll_events",
                           handle_session_state_changed_event(
                               event, exit_render_loop, request_restart))
              [] OTHER -> Handle("poll_events", Ignored)

\* HelloPolled without the test of session_running.
HelloPolled_AlwaysRender ==
    /\ prog = "hello" /\ pc = "polled"
    /\ Plain(IF exit_render_loop THEN "exit" ELSE "poll_actions", "none")

\* HelloPolled with the running flag tested before exit_render_loop.
HelloPolled_IgnoresExit ==
    /\ prog = "hello" /\ pc = "polled"
    /\ Plain(CASE session_running -> "poll_actions"
               [] ~session_running /\ exit_render_loop -> "exit"
               [] OTHER -> "loop",
             "none")

\* main: what follows program.poll_events in the frame loop.
HelloPolled ==
    /\ prog = "hello" /\ pc = "polled"
    /\ Plain(CASE exit_render_loop -> "exit"
               [] ~exit_render_loop /\ session_running -> "poll_actions"
               [] OTHER -> "loop",
             "none")

\* OpenXRProgram.poll_actions: the quit action requests the session's exit.
HelloPollActions ==
    /\ prog = "hello" /\ pc = "poll_actions"
    /\ \E quit \in BOOLEAN :
          IF quit
          THEN IF rtRunning
               THEN Plain("wait_frame", "request_exit_session")
               ELSE Raise("unwind", "SessionNotRunningError")
          ELSE Plain("wait_frame", "none")

\* render_frame: xr.wait_frame.
HelloWaitFrame ==
    /\ prog = "hello" /\ pc = "wait_frame"
    /\ Step("begin_frame", "wait_frame")
    /\ handled' = NoEvent
    /\ should_render' \in BOOLEAN
    /\ view_index' = 0
    /\ poses_valid' = TRUE
    /\ layers' = <<>>
    /\ UNCHANGED <<queue, flagVars, main_request_restart, loopVars, exc, pollSawLoss>>

\* render_frame: xr.begin_frame.
HelloBeginFrame ==
    /\ prog = "hello" /\ pc = "begin_frame"
    /\ Plain(IF should_render THEN "render_layer" ELSE "end_frame", "begin_frame")

\* render_layer up to the first swapchain: locate_views and locate_space.
\* The poses are valid or not; locate_space may raise.
HelloRenderLayer ==
    /\ prog = "hello" /\ pc = "render_layer"
    /\ \/ \E valid \in BOOLEAN : Located("acquire", "end_frame", valid)
       \/ Raise("unwind", "XrException")

\* render_layer: xr.acquire_swapchain_image for view view_index.
HelloAcquire ==
    /\ prog = "hello" /\ pc = "acquire"
    /\ Plain("wait_image", "acquire_swapchain_image")

\* HelloWaitImage without the call of xr.wait_swapchain_image.
HelloWaitImage_NoWait ==
    /\ prog = "hello" /\ pc = "wait_image"
    /\ Plain("render_view", "none")

\* render_layer: xr.wait_swapchain_image.
HelloWaitImage ==
    /\ prog = "hello" /\ pc = "wait_image"
    /\ Plain("render_view", "wait_swapchain_image")

\* render_layer: graphics_plugin.render_view, which may raise.
HelloRenderView ==
    /\ prog = "hello" /\ pc = "render_view"
    /\ \/ Plain("release", "render_view")
       \/ Raise("unwind", "RenderError")

\* HelloRelease without the call of xr.release_swapchain_image.
HelloRelease_NoRelease ==
    /\ prog = "hello" /\ pc = "release"
    /\ Step(IF view_index + 1 < NumViews THEN "acquire" ELSE "end_frame", "none")
    /\ handled' = NoEvent
    /\ view_index' = view_index + 1
    /\ layers' = (IF view_index + 1 < NumViews THEN layers ELSE <<"projection">>)
    /\ UNCHANGED <<queue, flagVars, main_request_restart, should_render,
                   poses_valid, loopVars, exc, pollSawLoss>>

\* render_layer: xr.release_swapchain_image, then the next view.
HelloRelease ==
    /\ prog = "hello" /\ pc = "release"
    /\ Step(IF view_index + 1 < NumViews THEN "acquire" ELSE "end_frame",
            "release_swapchain_image")
    /\ handled' = NoEvent
    /\ view_index' = view_index + 1
    /\ layers' = (IF view_index + 1 < NumViews THEN layers ELSE <<"projection">>)
    /\ UNCHANGED <<queue, flagVars, main_request_restart, should_render,
                   poses_valid, loopVars, exc, pollSawLoss>>

\* render_frame: xr.end_frame; the frame loop goes on.
HelloEndFrame ==
    /\ prog = "hello" /\ pc = "end_frame"
    /\ Plain("loop", "end_frame")

\* OpenXRProgram.__exit__ with the session destroyed first.
OpenXRProgram_exit_SessionFirst(handles, linux) ==
    LET order == <<"session", "hand_space_left", "hand_space_right", "action_set",
                   "swapchain_0", "swapchain_1", "visualized_space_0",
                   "visualized_space_1", "app_space", "instance">>
        Destroyed(h) == h \in Range(handles) /\ ~(linux /\ h = "instance")
    IN  SelectSeq(order, Destroyed)

\* The order in which OpenXRProgram.__exit__ destroys the handles: the hand
\* spaces and the action set, the swapchains, the visualized spaces, the app
\* space, the session and, except on Linux, the instance.
OpenXRProgram_exit(handles, linux) ==
    LET order == <<"hand_space_left", "hand_space_right", "action_set",
                   "swapchain_0", "swapchain_1", "visualized_space_0",
                   "visualized_space_1", "app_space", "session", "instance">>
        Destroyed(h) == h \in Range(handles) /\ ~(linux /\ h = "instance")
    IN  SelectSeq(order, Destroyed)

\* OpenXRProgram.__exit__ at the end of the with block, also when an
\* exception unwinds through it: the handles are destroyed.
HelloExit ==
    /\ prog = "hello" /\ pc \in {"exit", "unwind"}
    /\ PlainH(IF pc = "unwind" THEN "crashed" ELSE "after_with", "destroy_session")
    /\ \E linux \in BOOLEAN : released' = OpenXRProgram_exit(created, linux)
    /\ UNCHANGED created

\* HelloAfterWith with a test that looks at request_restart alone.
HelloAfterWith_IgnoresKey ==
    /\ prog = "hello" /\ pc = "after_with"
    /\ IF ~main_request_restart
       THEN Plain("done", "none")
       ELSE /\ restarts < MaxRestarts
            /\ pc' = "loop"
            /\ NewSession
            /\ restarts' = restarts + 1
            /\ session_state' = "UNKNOWN"
            /\ session_running' = FALSE
            /\ call' = "none"
            /\ handled' = NoEvent
            /\ created' = Created(prog)
            /\ released' = <<>>
            /\ window_closed' = FALSE
            /\ UNCHANGED <<prog, is_headless, key_press_event, exit_render_loop,
                           request_restart, main_request_restart, frameVars,
                           frame_count, wind_count, exc, pollSawLoss, formatVars>>

\* main after the with block: leave, or create a new instance and session.
HelloAfterWith ==
    /\ prog = "hello" /\ pc = "after_with"
    /\ IF key_press_event \/ ~main_request_restart
       THEN Plain("done", "none")
       ELSE /\ restarts < MaxRestarts
            /\ pc' = "loop"
            /\ NewSession
            /\ restarts' = restarts + 1
            /\ session_state' = "UNKNOWN"
            /\ session_running' = FALSE
            /\ call' = "none"
            /\ handled' = NoEvent
            /\ created' = Created(prog)
            /\ released' = <<>>
            /\ window_closed' = FALSE
            /\ UNCHANGED <<prog, is_headless, key_press_event, exit_render_loop,
                           request_restart, main_request_restart, frameVars,
                           frame_count, wind_count, exc, pollSawLoss, formatVars>>

\* poll_keyboard that also ends the frame loop by its flag.
PollKeyboard_SetsExitFlag ==
    /\ prog = "hello" /\ Live
    /\ ~key_press_event
    /\ key_press_event' = TRUE
    /\ exit_render_loop' = TRUE
    /\ call' = "none"
    /\ handled' = NoEvent
    /\ UNCHANGED <<prog, pc, rtVars, session_state, session_running,
                   request_restart, main_request_restart, is_headless, frameVars,
                   loopVars, exc, obsVars, pollSawLoss, handleVars, formatVars,
                   window_closed>>

\* poll_keyboard, the keyboard thread: a key was pressed.
PollKeyboard ==
    /\ prog = "hello" /\ Live
    /\ ~key_press_event
    /\ key_press_event' = TRUE
    /\ UNCHANGED rtVars
    /\ EnvUnchanged

HelloNext ==
    \/ HelloLoop \/ HelloPollEvents \/ HelloPolled \/ HelloPollActions
    \/ HelloWaitFrame \/ HelloBeginFrame \/ HelloRenderLayer \/ HelloAcquire
    \/ HelloWaitImage \/ HelloRenderView \/ HelloRelease \/ HelloEndFrame
    \/ HelloExit \/ HelloAfterWith \/ PollKeyboard

\* -------------------------------------------------------- xr_context_foo

\* SessionManager.handle_event with begin_session issued on SYNCHRONIZED as
\* well as on READY.
SessionManager_handle_event_BeginTwice(event_key, event) ==
    IF event_key # "SESSION_STATE_CHANGED"
    THEN Ignored
    ELSE LET s == event.state IN
         CASE s \in {"READY", "SYNCHRONIZED"} ->
                 Outcome(s, TRUE, exit_render_loop, request_restart, "begin_session")
           [] s = "STOPPING" ->
                 Outcome(s, FALSE, exit_render_loop, request_restart, "end_session")
           [] s = "EXITING" ->
                 Outcome(s, session_running, TRUE, request_restart, "none")
           [] OTHER ->
                 Outcome(s, session_running, exit_render_loop, request_restart, "none")

\* SessionManager.handle_event.
SessionManager_handle_event(event_key, event) ==
    IF event_key # "SESSION_STATE_CHANGED"
    THEN Ignored
    ELSE LET s == event.state IN
         CASE s = "READY" ->
                 Outcome(s, TRUE, exit_render_loop, request_restart, "begin_session")
           [] s = "STOPPING" ->
                 Outcome(s, FALSE, exit_render_loop, request_restart, "end_session")
           [] s = "EXITING" ->
                 Outcome(s, session_running, TRUE, request_restart, "none")
           [] OTHER ->
                 Outcome(s, session_running, exit_render_loop, request_restart, "none")

\* SessionManager._poll_events that lets EventUnavailable go on to its caller.
SessionManager_poll_events_Raises(again, empty) ==
    IF queue = <<>>
    THEN Raise("crashed", "EventUnavailable")
    ELSE Handle(again, SessionManager_handle_event(Head(queue).type, Head(queue)))

\* SessionManager._poll_events that returns after the first event it posts.
SessionManager_poll_events_OneEvent(again, empty) ==
    IF queue = <<>>
    THEN Plain(empty, "none")
    ELSE Handle(empty, SessionManager_handle_event(Head(queue).type, Head(queue)))

\* SessionManager._poll_events: one turn of its loop (the event bus posts the
\* event to handle_event), or EventUnavailable, which ends it at pc empty.
SessionManager_poll_events(again, empty) ==
    IF queue = <<>>
    THEN Plain(empty, "none")
    ELSE Handle(again, SessionManager_handle_event(Head(queue).type, Head(queue)))

\* FrameManager.__enter__: xr.wait_frame.
FrameManager_wait_frame(headless, begin) ==
    /\ Step(IF is_headless THEN headless ELSE begin, "wait_frame")
    /\ handled' = NoEvent
    /\ should_render' \in BOOLEAN
    /\ UNCHANGED <<queue, flagVars, main_request_restart, view_index, poses_valid,
                   layers, loopVars, exc, pollSawLoss>>

\* FrameManager.__exit__ that leaves the frame open when an exception unwinds.
FrameManager_exit_SkipOnException(newpc) ==
    Plain(newpc, IF is_headless \/ exc # "none" THEN "none" ELSE "end_frame")

\* FrameManager.__exit__ that calls xr.end_frame in a headless session too.
FrameManager_exit_AlwaysEnd(newpc) ==
    Plain(newpc, "end_frame")

\* FrameManager.__exit__: xr.end_frame unless headless.
FrameManager_exit(newpc) ==
    Plain(newpc, IF is_headless THEN "none" ELSE "end_frame")

\* The order in which XrContext.__enter__ creates its resources; a headless
\* context has neither a graphics context nor swapchains.
XrContext_enter_order(headless) ==
    IF headless
    THEN <<"instance", "session", "reference_space", "session_manager">>
    ELSE <<"instance", "graphics_context", "session", "reference_space",
           "swapchains", "session_manager">>

\* XrContext.__enter__ that lets the exception of a failed creation go on to
\* the caller without calling __exit__.
CtxEnter_NoCleanUp ==
    /\ prog = "ctx" /\ pc = "enter"
    /\ LET r == XrContext_enter_order(is_headless)[Len(created) + 1] IN
          \/ /\ pc' = (IF r = "session_manager" THEN "loop" ELSE "enter")
             /\ created' = Append(created, r)
             /\ rtAlive' = (rtAlive \/ r = "session")
             /\ queue' = (IF r = "session" THEN <<StateEvent("IDLE")>> ELSE queue)
             /\ exc' = exc
          \/ /\ pc' = "crashed"
             /\ exc' = "XrException"
             /\ UNCHANGED <<created, rtAlive, queue>>
    /\ call' = "none"
    /\ handled' = NoEvent
    /\ UNCHANGED <<prog, is_headless, rtState, rtRunning, rtExitRequested,
                   key_press_event, flagVars, main_request_restart, frameVars,
                   loopVars, obsVars, pollSawLoss, released, formatVars,
                   window_closed>>

\* XrContext.__enter__: the next resource is created, or its creation raises
\* and __enter__ calls __exit__ on what exists.  The new session's IDLE event
\* is queued by the runtime.
CtxEnter ==
    /\ prog = "ctx" /\ pc = "enter"
    /\ LET r == XrContext_enter_order(is_headless)[Len(created) + 1] IN
          \/ /\ pc' = (IF r = "session_manager" THEN "loop" ELSE "enter")
             /\ created' = Append(created, r)
             /\ rtAlive' = (rtAlive \/ r = "session")
             /\ queue' = (IF r = "session" THEN <<StateEvent("IDLE")>> ELSE queue)
             /\ exc' = exc
          \/ /\ pc' = "exit_done"
             /\ exc' = "XrException"
             /\ UNCHANGED <<created, rtAlive, queue>>
    /\ call' = "none"
    /\ handled' = NoEvent
    /\ UNCHANGED <<prog, is_headless, rtState, rtRunning, rtExitRequested,
                   key_press_event, flagVars, main_request_restart, frameVars,
                   loopVars, obsVars, pollSawLoss, released, formatVars,
                   window_closed>>

\* SessionManager.frames: self._poll_events().
CtxPollEvents ==
    /\ prog = "ctx" /\ pc = "loop"
    /\ SessionManager_poll_events("loop", "check")

\* SessionManager.frames: the tests that follow _poll_events.  When the
\* generator ends, main leaves its with block and XrContext.__exit__ starts.
CtxCheck ==
    /\ prog = "ctx" /\ pc = "check"
    /\ Plain(CASE exit_render_loop -> "exit_request"
               [] ~exit_render_loop /\ session_state = "IDLE" -> "loop"
               [] ~exit_render_loop /\ session_state # "IDLE" /\ session_running ->
                     "wait_frame"
               [] OTHER -> "loop",
             "none")

\* SessionManager.frames: FrameManager.__enter__, xr.wait_frame.
CtxWaitFrame ==
    /\ prog = "ctx" /\ pc = "wait_frame"
    /\ FrameManager_wait_frame("yield", "begin_frame")

\* SessionManager.frames: FrameManager.__enter__, xr.begin_frame.
CtxBeginFrame ==
    /\ prog = "ctx" /\ pc = "begin_frame"
    /\ Plain("yield", "begin_frame")

\* main: the body of the frame loop, run while the generator is suspended at
\* its yield.  It breaks after the counted frames, completes, or raises; a
\* break or an exception closes the generator.
CtxBody ==
    /\ prog = "ctx" /\ pc = "yield"
    /\ IF frame_count >= FrameLimit
       THEN Plain("close_frame", "none")
       ELSE \/ /\ Step("end_frame", "none")
               /\ handled' = NoEvent
               /\ frame_count' = frame_count + 1
               /\ UNCHANGED <<queue, flagVars, main_request_restart, frameVars,
                              wind_count, restarts, exc, pollSawLoss>>
            \/ Raise("close_frame", "Exception")

\* SessionManager.frames: FrameManager.__exit__ when the body has completed.
CtxEndFrame ==
    /\ prog = "ctx" /\ pc = "end_frame"
    /\ FrameManager_exit("loop")

\* CtxCloseFrame with the generator left suspended at its yield: its
\* FrameManager is not exited before SessionManager.__exit__ starts.
CtxCloseFrame_StaysSuspended ==
    /\ prog = "ctx" /\ pc = "close_frame"
    /\ Plain("exit_request", "none")

\* SessionManager.frames: FrameManager.__exit__ when the generator is closed.
CtxCloseFrame ==
    /\ prog = "ctx" /\ pc = "close_frame"
    /\ FrameManager_exit("exit_request")

\* SessionManager.__exit__: xr.request_exit_session, SessionNotRunningError caught.
CtxExitRequest ==
    /\ prog = "ctx" /\ pc = "exit_request"
    /\ Plain("wind_top", IF rtRunning THEN "request_exit_session" ELSE "none")

\* SessionManager.__exit__: for _ in range(20).
CtxWindTop ==
    /\ prog = "ctx" /\ pc = "wind_top"
    /\ IF wind_count < WindDownLimit
       THEN /\ Step("wind_poll", "none")
            /\ handled' = NoEvent
            /\ wind_count' = wind_count + 1
            /\ UNCHANGED <<queue, flagVars, main_request_restart, frameVars,
                           frame_count, restarts, exc, pollSawLoss>>
       ELSE Plain("exit_done", "none")

\* SessionManager.__exit__: self._poll_events().
CtxWindPoll ==
    /\ prog = "ctx" /\ pc = "wind_poll"
    /\ SessionManager_poll_events("wind_poll", "wind_check")

\* SessionManager.__exit__: the tests that follow _poll_events.
CtxWindCheck ==
    /\ prog = "ctx" /\ pc = "wind_check"
    /\ Plain(CASE exit_render_loop -> "exit_done"
               [] ~exit_render_loop /\ session_running -> "wind_wait"
               [] OTHER -> "wind_top",
             "none")

\* SessionManager.__exit__: FrameManager.__enter__, xr.wait_frame.
CtxWindWait ==
    /\ prog = "ctx" /\ pc = "wind_wait"
    /\ FrameManager_wait_frame("wind_body", "wind_begin")

\* SessionManager.__exit__: FrameManager.__enter__, xr.begin_frame.
CtxWindBegin ==
    /\ prog = "ctx" /\ pc = "wind_begin"
    /\ Plain("wind_body", "begin_frame")

\* SessionManager.__exit__: time.sleep in the with block, which a
\* KeyboardInterrupt may end.
CtxWindBody ==
    /\ prog = "ctx" /\ pc = "wind_body"
    /\ \/ Plain("wind_end", "none")
       \/ Raise("wind_raise", "KeyboardInterrupt")

\* SessionManager.__exit__: FrameManager.__exit__ after the sleep.
CtxWindEnd ==
    /\ prog = "ctx" /\ pc = "wind_end"
    /\ FrameManager_exit("wind_top")

\* SessionManager.__exit__: FrameManager.__exit__ while the interrupt unwinds;
\* the interrupt then leaves SessionManager.__exit__ and XrContext.__exit__.
CtxWindRaise ==
    /\ prog = "ctx" /\ pc = "wind_raise"
    /\ FrameManager_exit("crashed")

\* XrContext.__exit__ with the session released before the reference space
\* and the swapchains.
XrContext_exit_order_SessionFirst ==
    <<"session_manager", "session", "swapchains", "reference_space",
      "graphics_context", "instance">>

\* The order in which XrContext.__exit__ releases what __enter__ created.
XrContext_exit_order ==
    <<"session_manager", "swapchains", "reference_space", "session",
      "graphics_context", "instance">>

\* The OpenXR call that releases a resource of XrContext.
XrContext_release_call(r) ==
    CASE r = "session" -> "destroy_session"
      [] r = "reference_space" -> "destroy_space"
      [] r = "instance" -> "destroy_instance"
      [] OTHER -> "none"

\* XrContext.__exit__ after the session manager's __exit__ has returned: one
\* resource is released per step, each one that is not None, and at the end
\* the exception that led here, if any, goes on to the caller.
CtxExitDone ==
    /\ prog = "ctx" /\ pc = "exit_done"
    /\ LET Held(r) == r \in Range(created) /\ r \notin Range(released)
           rest == SelectSeq(XrContext_exit_order, Held)
       IN  IF rest = <<>>
           THEN Plain(IF exc = "none" THEN "done" ELSE "crashed", "none")
           ELSE /\ PlainH("exit_done", XrContext_release_call(Head(rest)))
                /\ released' = Append(released, Head(rest))
                /\ UNCHANGED created

CtxNext ==
    \/ CtxEnter \/ CtxPollEvents \/ CtxCheck \/ CtxWaitFrame \/ CtxBeginFrame \/ CtxBody
    \/ CtxEndFrame \/ CtxCloseFrame \/ CtxExitRequest \/ CtxWindTop
    \/ CtxWindPoll \/ CtxWindCheck \/ CtxWindWait \/ CtxWindBegin
    \/ CtxWindBody \/ CtxWindEnd \/ CtxWindRaise \/ CtxExitDone


\* -------------------------------------------------- pink_world_one_file

\* SessionStateEventHandler.handle_event.
SessionStateEventHandler_handle_event(event) ==
    CASE event.type = "INSTANCE_LOSS_PENDING" ->
            Outcome(session_state, session_running, TRUE, TRUE, "none")
      [] event.type = "SESSION_STATE_CHANGED" ->
            LET s == event.state IN
            CASE s = "READY" ->
                    Outcome(s, TRUE, exit_render_loop, request_restart, "begin_session")
              [] s = "STOPPING" ->
                    Outcome(s, FALSE, exit_render_loop, request_restart, "end_session")
              [] s \in {"EXITING", "LOSS_PENDING"} ->
                    Outcome(s, session_running, TRUE, s = "LOSS_PENDING", "none")
              [] OTHER ->
                    Outcome(s, session_running, exit_render_loop, request_restart, "none")
      [] OTHER -> Ignored

\* main: the loop that polls the session state events, one turn of it, or
\* EventUnavailable, which ends it at pc empty.
PinkPoll(again, empty) ==
    IF queue = <<>>
    THEN Plain(empty, "none")
    ELSE Handle(again, SessionStateEventHandler_handle_event(Head(queue)))

\* main: the test that lets a loop run a frame.
PinkFrameAllowed == session_running /\ session_state \in FrameStates

\* main: for _ in range(500).
PinkLoop ==
    /\ prog = "pink" /\ pc = "loop"
    /\ IF frame_count < FrameLimit
       THEN /\ Step("poll", "none")
            /\ handled' = NoEvent
            /\ frame_count' = frame_count + 1
            /\ UNCHANGED <<queue, flagVars, main_request_restart, frameVars,
                           wind_count, restarts, exc, pollSawLoss>>
       ELSE Plain("exit_request", "none")

\* main: poll session state events.
PinkPollEvents ==
    /\ prog = "pink" /\ pc = "poll"
    /\ PinkPoll("poll", "check")

\* main: the tests that follow the polling.
PinkCheck ==
    /\ prog = "pink" /\ pc = "check"
    /\ Plain(CASE exit_render_loop -> "exit_request"
               [] ~exit_render_loop /\ PinkFrameAllowed -> "wait_frame"
               [] OTHER -> "loop",
             "none")

\* main: xr.wait_frame.
PinkWaitFrame ==
    /\ prog = "pink" /\ pc = "wait_frame"
    /\ Step("begin_frame", "wait_frame")
    /\ handled' = NoEvent
    /\ should_render' \in BOOLEAN
    /\ view_index' = 0
    /\ poses_valid' = TRUE
    /\ layers' = <<>>
    /\ UNCHANGED <<queue, flagVars, main_request_restart, loopVars, exc, pollSawLoss>>

\* main: xr.begin_frame.
PinkBeginFrame ==
    /\ prog = "pink" /\ pc = "begin_frame"
    /\ Plain(IF should_render THEN "locate_views" ELSE "end_frame", "begin_frame")

\* main: xr.locate_views between two assertions on the GL error state.
PinkLocateViews ==
    /\ prog = "pink" /\ pc = "locate_views"
    /\ \/ \E poses_are_valid \in BOOLEAN :
             Located("acquire", "end_frame", poses_are_valid)
       \/ Raise("unwind", "AssertionError")

\* main: xr.acquire_swapchain_image for view view_index.
PinkAcquire ==
    /\ prog = "pink" /\ pc = "acquire"
    /\ Plain("wait_image", "acquire_swapchain_image")

\* main: xr.wait_swapchain_image.
PinkWaitImage ==
    /\ prog = "pink" /\ pc = "wait_image"
    /\ Plain("render_view", "wait_swapchain_image")

\* main: the GL calls that paint the view, which may raise.
PinkRenderView ==
    /\ prog = "pink" /\ pc = "render_view"
    /\ \/ Plain("release", "render_view")
       \/ Raise("unwind", "GLError")

\* main: xr.release_swapchain_image, then the next view.
PinkRelease ==
    /\ prog = "pink" /\ pc = "release"
    /\ Step(IF view_index + 1 < NumViews THEN "acquire" ELSE "end_frame",
            "release_swapchain_image")
    /\ handled' = NoEvent
    /\ view_index' = view_index + 1
    /\ layers' = (IF view_index + 1 < NumViews THEN layers ELSE <<"projection">>)
    /\ UNCHANGED <<queue, flagVars, main_request_restart, should_render,
                   poses_valid, loopVars, exc, pollSawLoss>>

\* main: the assertion on the GL error state, then xr.end_frame.
PinkEndFrame ==
    /\ prog = "pink" /\ pc = "end_frame"
    /\ \/ Plain("loop", "end_frame")
       \/ Raise("unwind", "AssertionError")

\* main: xr.request_exit_session after the frame loop, SessionNotRunningError caught.
PinkExitRequest ==
    /\ prog = "pink" /\ pc = "exit_request"
    /\ Plain("wind_top", IF rtRunning THEN "request_exit_session" ELSE "none")

\* main: for _ in range(20).
PinkWindTop ==
    /\ prog = "pink" /\ pc = "wind_top"
    /\ IF wind_count < WindDownLimit
       THEN /\ Step("wind_poll", "none")
            /\ handled' = NoEvent
            /\ wind_count' = wind_count + 1
            /\ UNCHANGED <<queue, flagVars, main_request_restart, frameVars,
                           frame_count, restarts, exc, pollSawLoss>>
       ELSE Plain("exit_done", "none")

\* main: poll session state events while winding down.
PinkWindPoll ==
    /\ prog = "pink" /\ pc = "wind_poll"
    /\ PinkPoll("wind_poll", "wind_check")

\* main: the tests that follow the polling while winding down.
PinkWindCheck ==
    /\ prog = "pink" /\ pc = "wind_check"
    /\ Plain(CASE exit_render_loop -> "exit_done"
               [] ~exit_render_loop /\ PinkFrameAllowed -> "wind_wait"
               [] OTHER -> "wind_top",
             "none")

\* main: the wind-down frame, xr.wait_frame.
PinkWindWait ==
    /\ prog = "pink" /\ pc = "wind_wait"
    /\ Plain("wind_begin", "wait_frame")

\* main: the wind-down frame, xr.begin_frame.
PinkWindBegin ==
    /\ prog = "pink" /\ pc = "wind_begin"
    /\ Plain("wind_end", "begin_frame")

\* main: the wind-down frame, xr.end_frame.
PinkWindEnd ==
    /\ prog = "pink" /\ pc = "wind_end"
    /\ Plain("wind_top", "end_frame")

\* main: the exit stack closes, also when an exception unwinds through it:
\* the session is destroyed.
PinkExitStack ==
    /\ prog = "pink" /\ pc \in {"exit_done", "unwind"}
    /\ Plain(IF pc = "unwind" THEN "crashed" ELSE "done", "destroy_session")

PinkNext ==
    \/ PinkLoop \/ PinkPollEvents \/ PinkCheck \/ PinkWaitFrame \/ PinkBeginFrame
    \/ PinkLocateViews \/ PinkAcquire \/ PinkWaitImage \/ PinkRenderView
    \/ PinkRelease \/ PinkEndFrame \/ PinkExitRequest \/ PinkWindTop
    \/ PinkWindPoll \/ PinkWindCheck \/ PinkWindWait \/ PinkWindBegin
    \/ PinkWindEnd \/ PinkExitStack

\* ------------------------------------------------------------ headless.py

\* The event handling in the frame loop of headless.py.
HeadlessHandleEvent(event) ==
    IF event.type = "SESSION_STATE_CHANGED"
    THEN LET s == event.state IN
         CASE s = "READY" ->
                 Outcome(s, session_running, exit_render_loop, request_restart,
                         "begin_session")
           [] s = "STOPPING" ->
                 Outcome(s, session_running, exit_render_loop, request_restart,
                         "destroy_session")
           [] OTHER ->
                 Outcome(s, session_running, exit_render_loop, request_restart, "none")
    ELSE Ignored

\* for frame_index in range(30); after the loop, the clean-up.
HeadlessLoop ==
    /\ prog = "headless" /\ pc = "loop"
    /\ IF frame_count < FrameLimit
       THEN /\ Step("poll", "none")
            /\ handled' = NoEvent
            /\ frame_count' = frame_count + 1
            /\ UNCHANGED <<queue, flagVars, main_request_restart, frameVars,
                           wind_count, restarts, exc, pollSawLoss>>
       ELSE Plain("done", "destroy_instance")

\* Poll session state changed events.
HeadlessPollEvents ==
    /\ prog = "headless" /\ pc = "poll"
    /\ IF queue = <<>>
       THEN Plain(IF session_state = "FOCUSED" THEN "wait_frame" ELSE "loop", "none")
       ELSE Handle("poll", HeadlessHandleEvent(Head(queue)))

\* xr.wait_frame and the per-frame activities.
HeadlessWaitFrame ==
    /\ prog = "headless" /\ pc = "wait_frame"
    /\ Plain("loop", "wait_frame")

HeadlessNext ==
    \/ HeadlessLoop \/ HeadlessPollEvents \/ HeadlessWaitFrame

\* ------------------------------------------------- where_does_it_hang.py

\* The event handling in the frame loop of where_does_it_hang.py.
HangHandleEvent(event) ==
    IF event.type = "SESSION_STATE_CHANGED"
    THEN LET s == event.state IN
         CASE s = "READY" ->
                 Outcome(s, TRUE, exit_render_loop, request_restart, "begin_session")
           [] s = "STOPPING" ->
                 Outcome(s, FALSE, exit_render_loop, request_restart, "end_session")
           [] s \in {"EXITING", "LOSS_PENDING"} ->
                 Outcome(s, session_running, TRUE, request_restart, "none")
           [] OTHER ->
                 Outcome(s, session_running, exit_render_loop, request_restart, "none")
    ELSE Ignored

\* xr.request_exit_session outside any try block: the call, or the
\* SessionNotRunningError the runtime answers when the session is not running.
HangRequestExit(newpc) ==
    IF rtRunning
    THEN Plain(newpc, "request_exit_session")
    ELSE Raise("crashed", "SessionNotRunningError")

\* The top of the frame loop: frame_count, graphics.poll_events, and the
\* exit request when the window was closed.  frame_count stops counting once
\* it is past the limit it is compared with.
HangLoop ==
    /\ prog = "hang" /\ pc = "loop"
    /\ \E closed \in BOOLEAN :
          IF closed /\ ~rtRunning
          THEN Raise("crashed", "SessionNotRunningError")
          ELSE /\ Step("poll", IF closed THEN "request_exit_session" ELSE "none")
               /\ handled' = NoEvent
               /\ frame_count' = IF frame_count > FrameLimit
                                 THEN frame_count ELSE frame_count + 1
               /\ exit_render_loop' = FALSE
               /\ UNCHANGED <<queue, session_state, session_running, request_restart,
                              main_request_restart, frameVars, wind_count, restarts,
                              exc, pollSawLoss>>

\* poll_xr_events.
HangPollEvents ==
    /\ prog = "hang" /\ pc = "poll"
    /\ IF queue = <<>>
       THEN Plain(CASE exit_render_loop -> "exit_done"
                    [] ~exit_render_loop /\ session_running
                          /\ session_state \in FrameStates -> "wait_frame"
                    [] ~exit_render_loop /\ session_running
                          /\ session_state \notin FrameStates -> "after_frame"
                    [] OTHER -> "loop",
                  "none")
       ELSE Handle("poll", HangHandleEvent(Head(queue)))

\* xr.wait_frame.
HangWaitFrame ==
    /\ prog = "hang" /\ pc = "wait_frame"
    /\ Step("begin_frame", "wait_frame")
    /\ handled' = NoEvent
    /\ should_render' \in BOOLEAN
    /\ UNCHANGED <<queue, flagVars, main_request_restart, view_index, poses_valid,
                   layers, loopVars, exc, pollSawLoss>>

\* xr.begin_frame, then the GL calls when the frame should be rendered.
HangBeginFrame ==
    /\ prog = "hang" /\ pc = "begin_frame"
    /\ Plain("end_frame", "begin_frame")

\* xr.end_frame.
HangEndFrame ==
    /\ prog = "hang" /\ pc = "end_frame"
    /\ Plain("after_frame", "end_frame")

\* if frame_count > 100: xr.request_exit_session(session).
HangAfterFrame ==
    /\ prog = "hang" /\ pc = "after_frame"
    /\ IF frame_count > FrameLimit
       THEN HangRequestExit("loop")
       ELSE Plain("loop", "none")

\* The clean-up: graphics.destroy() and xr.destroy_instance.
HangCleanUp ==
    /\ prog = "hang" /\ pc = "exit_done"
    /\ Plain("done", "destroy_instance")

HangNext ==
    \/ HangLoop \/ HangPollEvents \/ HangWaitFrame \/ HangBeginFrame
    \/ HangEndFrame \/ HangAfterFrame \/ HangCleanUp


\* ------------------------------------- the color swapchain format's choice

\* The formats the runtime may enumerate in the model: formats of the
\* programs' lists and one that none of them lists.
RuntimeFormats ==
    {"GL_RGB10_A2", "GL_RGBA16", "GL_RGBA8", "GL_SRGB8", "GL_SRGB8_ALPHA8",
     "GL_DEPTH_COMPONENT24"}

\* What xr.enumerate_swapchain_formats may return: up to MaxFormats formats,
\* none of them twice, in the runtime's order.
FormatLists ==
    {f \in UNION {[1 .. n -> RuntimeFormats] : n \in 0 .. MaxFormats} :
        \A i, j \in 1 .. Len(f) : i # j => f[i] # f[j]}

\* The list of supported_color_swapchain_formats of the OpenGL plugin, and
\* the lists of pink_world_one_file.py and hello_xr_one_file.py.
Preferred(p) ==
    CASE p = "hello" ->
            <<"GL_RGB10_A2", "GL_RGBA16F", "GL_RGBA8", "GL_RGBA8_SNORM",
              "GL_SRGB8", "GL_SRGB8_ALPHA8">>
      [] p = "pink" -> <<"GL_RGBA8", "GL_RGBA8_SNORM", "GL_SRGB8_ALPHA8">>
      [] OTHER ->
            <<"GL_RGB10_A2", "GL_RGBA16F", "GL_RGBA16", "GL_RGBA8",
              "GL_RGBA8_SNORM", "GL_SRGB8_ALPHA8", "GL_SRGB8">>

\* The first element of seq that is in set S ("none" if there is none): a
\* loop over seq that stops at the first match.
RECURSIVE FirstMatch(_, _)
FirstMatch(seq, S) ==
    IF seq = <<>> THEN "none"
    ELSE IF Head(seq) \in S THEN Head(seq)
    ELSE FirstMatch(Tail(seq), S)

\* OpenGLGraphicsPlugin.select_color_swapchain_format: the outer loop goes
\* over the runtime's formats, the inner one over the plugin's list.
select_color_swapchain_format(formats) ==
    FirstMatch(formats, Range(Preferred("hello")))

\* The loop of pink_world_one_file.py and hello_xr_one_file.py: over the
\* program's list, with a membership test in the runtime's formats.
one_file_color_swapchain_format(p, formats) ==
    FirstMatch(Preferred(p), Range(formats))

\* The programs start with a list of formats enumerated by the runtime.
SelectInit ==
    /\ prog \in {"hello", "pink", "one_file"}
    /\ pc = "select"
    /\ runtime_formats \in FormatLists
    /\ color_swapchain_format = "none"
    /\ rtState = "IDLE"
    /\ rtRunning = FALSE
    /\ rtExitRequested = FALSE
    /\ rtAlive = TRUE
    /\ queue = <<StateEvent("IDLE")>>
    /\ session_state = InitialSessionState(prog)
    /\ session_running = FALSE
    /\ exit_render_loop = FALSE
    /\ request_restart = FALSE
    /\ main_request_restart = FALSE
    /\ is_headless = FALSE
    /\ should_render = FALSE
    /\ view_index = 0
    /\ poses_valid = TRUE
    /\ layers = <<>>
    /\ frame_count = 0
    /\ wind_count = 0
    /\ restarts = 0
    /\ key_press_event = FALSE
    /\ window_closed = FALSE
    /\ exc = "none"
    /\ call = "none"
    /\ handled = NoEvent
    /\ sessionOpen = 0
    /\ frameOpen = 0
    /\ frameEnds = 0
    /\ imageOut = [v \in Views |-> 0]
    /\ imageReleased = [v \in Views |-> FALSE]
    /\ sessionEnded = FALSE
    /\ imagePhase = [v \in Views |-> "released"]
    /\ pollSawLoss = FALSE
    /\ created = <<"instance", "session">>
    /\ released = <<>>

\* The selection's result: the format, or the exception raised when none was
\* found.
Selected(format, error) ==
    /\ color_swapchain_format' = format
    /\ exc' = (IF format = "none" THEN error ELSE "none")
    /\ pc' = (IF format = "none" THEN "crashed" ELSE "selected")
    /\ UNCHANGED <<prog, rtVars, flagVars, main_request_restart, is_headless,
                   frameVars, loopVars, key_press_event, call, handled, obsVars,
                   pollSawLoss, handleVars, runtime_formats, window_closed>>

\* OpenXRProgram.create_swapchains: the graphics plugin selects the format.
HelloSelectFormat ==
    /\ prog = "hello" /\ pc = "select"
    /\ Selected(select_color_swapchain_format(runtime_formats), "RuntimeError")

\* pink_world_one_file.py: the swapchain format, and the assertion on it.
PinkSelectFormat ==
    /\ prog = "pink" /\ pc = "select"
    /\ Selected(one_file_color_swapchain_format(prog, runtime_formats),
                "AssertionError")

\* hello_xr_one_file.py: the swapchain format, and the assertion on it.
OneFileSelectFormat ==
    /\ prog = "one_file" /\ pc = "select"
    /\ Selected(one_file_color_swapchain_format(prog, runtime_formats),
                "AssertionError")

SelectNext == HelloSelectFormat \/ PinkSelectFormat \/ OneFileSelectFormat

SelectSpec == SelectInit /\ [][SelectNext]_vars

\* ------------------------------- the handler and the session of its event

\* A state-changed event whose session field names another session than the
\* program's own: the tag stands for the event's type and session together.
ForeignStateEvent(s) == [type |-> "SESSION_STATE_CHANGED_OTHER_SESSION", state |-> s]

\* OpenXRProgram.handle_session_state_changed_event: the event's state is
\* mirrored first, then an event of another session makes it return.
handle_session_state_changed_event_of(event, exit, restart) ==
    IF event.type = "SESSION_STATE_CHANGED_OTHER_SESSION"
    THEN Outcome(event.state, session_running, exit, restart, "none")
    ELSE handle_session_state_changed_event(event, exit, restart)

\* The edges of the session state graph.
SessionGraph(s, t) ==
    \/ <<s, t>> \in {<<"IDLE", "READY">>, <<"READY", "SYNCHRONIZED">>,
                      <<"SYNCHRONIZED", "VISIBLE">>, <<"VISIBLE", "FOCUSED">>,
                      <<"FOCUSED", "STOPPING">>, <<"STOPPING", "EXITING">>,
                      <<"STOPPING", "IDLE">>, <<"LOSS_PENDING", "EXITING">>}
    \/ t = "LOSS_PENDING" /\ s \in SessionStates \ {"UNKNOWN", "LOSS_PENDING"}

\* The flags poll_events may hold when it calls the handler: both False, or
\* what the handler returned for an earlier event of the same call.
PolledFlags == {<<FALSE, FALSE>>, <<TRUE, FALSE>>, <<TRUE, TRUE>>}

\* hello_xr inside program.poll_events with one event read: the next state
\* of its own session, or any state of another session.
HandlerInit ==
    /\ prog = "hello"
    /\ pc = "handle"
    /\ session_state \in SessionStates
    /\ session_running \in BOOLEAN
    /\ session_running => session_state \in {"READY", "SYNCHRONIZED", "VISIBLE",
                                             "FOCUSED", "LOSS_PENDING"}
    /\ ~session_running => session_state \in {"UNKNOWN", "IDLE", "STOPPING",
                                              "EXITING", "LOSS_PENDING"}
    /\ \E flags \in PolledFlags :
          exit_render_loop = flags[1] /\ request_restart = flags[2]
    /\ \E s \in SessionStates :
          \/ queue = <<ForeignStateEvent(s)>>
          \/ /\ queue = <<StateEvent(s)>>
             /\ \/ session_state = "UNKNOWN" /\ s = "IDLE"
                \/ /\ SessionGraph(session_state, s)
                   /\ s = "STOPPING" => session_running
    /\ rtState = session_state
    /\ rtRunning = session_running
    /\ rtExitRequested = FALSE
    /\ rtAlive = TRUE
    /\ main_request_restart = FALSE
    /\ is_headless = FALSE
    /\ should_render = FALSE
    /\ view_index = 0
    /\ poses_valid = TRUE
    /\ layers = <<>>
    /\ frame_count = 0
    /\ wind_count = 0
    /\ restarts = 0
    /\ key_press_event = FALSE
    /\ window_closed = FALSE
    /\ exc = "none"
    /\ call = "none"
    /\ handled = NoEvent
    /\ sessionOpen = (IF session_running THEN 1 ELSE 0)
    /\ frameOpen = 0
    /\ frameEnds = 0
    /\ imageOut = [v \in Views |-> 0]
    /\ imageReleased = [v \in Views |-> FALSE]
    /\ sessionEnded = FALSE
    /\ imagePhase = [v \in Views |-> "released"]
    /\ pollSawLoss = FALSE
    /\ created = Created(prog)
    /\ released = <<>>
    /\ runtime_formats = <<>>
    /\ color_swapchain_format = "none"

\* OpenXRProgram.poll_events: the call of handle_session_state_changed_event
\* for the event read.
HelloHandleEvent ==
    /\ prog = "hello" /\ pc = "handle"
    /\ Handle("handled",
              handle_session_state_changed_event_of(
                  Head(queue), exit_render_loop, request_restart))

HandlerNext == HelloHandleEvent

HandlerSpec == HandlerInit /\ [][HandlerNext]_vars

\* ------------------------------------------------------ the whole programs

Next ==
    \/ RuntimeStateChange \/ RuntimeOtherEvent
    \/ HelloNext
    \/ CtxNext
    \/ PinkNext
    \/ HeadlessNext
    \/ HangNext

Spec == Init /\ [][Next]_vars

\* ------------------------------------------------------------ properties

\* The calls of the frame sequencer.
FrameCalls == {"wait_frame", "begin_frame", "end_frame"}

\* hello_xr: the positions inside render_frame after xr.begin_frame.
HelloInFrame ==
    {"render_layer", "acquire", "wait_image", "render_view", "release", "end_frame"}

\* xr_context_foo: the positions inside a FrameManager with block.
CtxInFrame ==
    {"yield", "end_frame", "close_frame", "wind_body", "wind_end", "wind_raise"}

\* C1: in hello_xr, once render_frame has been left, by its return or by an
\* exception of render_layer or render_view, every begin_frame has had its
\* end_frame.
C1_RenderFrameEndsItsFrame ==
    (prog = "hello" /\ pc \notin HelloInFrame) => frameOpen = 0

\* C2: for a FrameManager that is not headless, end_frame is called exactly
\* once for the begin_frame of __enter__: the frame is open inside the with
\* block, closed outside it, however the block was left, and never ended twice.
C2_FrameManagerEndsFrameOnce ==
    (prog = "ctx" /\ ~is_headless) =>
        /\ frameEnds <= 1
        /\ pc \in CtxInFrame => (frameOpen = 1 /\ frameEnds = 0)
        /\ pc \notin CtxInFrame => frameOpen = 0

\* C2 witness: a with block left by an exception, its frame ended once.
C2_Witness ==
    /\ prog = "ctx" /\ ~is_headless
    /\ exc # "none"
    /\ call = "end_frame" /\ frameOpen = 0 /\ frameEnds = 1

\* C3: on every swapchain acquire and release alternate, starting with
\* acquire: an image is acquired only when none is out, and released only
\* when one is.
C3_AcquireReleaseAlternate ==
    \A v \in Views : imageOut[v] \in {0, 1}

\* C3 witness: an acquire on a swapchain that has had an image released.
C3_Witness ==
    /\ call = "acquire_swapchain_image"
    /\ imageReleased[view_index]
    /\ imageOut[view_index] = 1

\* C4: begin_session is called only by the step that handles a state-changed
\* event reporting READY, end_session only by the one that handles STOPPING.
C4_SessionCallsOnlyOnEvent ==
    /\ call = "begin_session" => handled = StateEvent("READY")
    /\ call = "end_session" => handled = StateEvent("STOPPING")

\* C4 witness: begin_session and end_session have both been called.
C4_Witness ==
    /\ call = "end_session"
    /\ sessionOpen = 0

\* C5: handling a state-changed event that reports READY issues
\* begin_session, and handling one that reports STOPPING issues end_session.
C5_EventCausesSessionCall ==
    /\ handled = StateEvent("READY") => call = "begin_session"
    /\ handled = StateEvent("STOPPING") => call = "end_session"

\* C6: begin_session and end_session alternate on a session, starting with
\* begin_session: at most one begin_session is outstanding.
C6_BeginEndAlternate ==
    /\ sessionOpen \in {0, 1}
    /\ call = "begin_session" => sessionOpen = 1
    /\ call = "end_session" => sessionOpen = 0

\* C6 witness: a session begun again after it was ended.
C6_Witness ==
    /\ call = "begin_session"
    /\ sessionEnded

\* C7: in the programs that keep an exit flag, handling a state-changed event
\* that reports EXITING or LOSS_PENDING leaves the flag set.
C7_ExitFlagSet ==
    (/\ prog \in {"hello", "ctx", "pink", "hang"}
     /\ handled.type = "SESSION_STATE_CHANGED"
     /\ handled.state \in {"EXITING", "LOSS_PENDING"})
        => exit_render_loop

\* C8 as stated: a poll_events call that handled LOSS_PENDING returns
\* exit_render_loop = True and request_restart = True.
C8_LossPendingReturnsRestart ==
    (prog = "hello" /\ pc = "polled" /\ pollSawLoss)
        => (exit_render_loop /\ request_restart)

\* C8 as amended: such a call returns exit_render_loop = True, and
\* request_restart = True unless it went on to handle EXITING.
C8_LossPendingReturnsRestartUnlessExiting ==
    (prog = "hello" /\ pc = "polled" /\ pollSawLoss)
        => (exit_render_loop /\ (request_restart \/ session_state = "EXITING"))

\* C8 witness: a poll_events call that handled LOSS_PENDING has returned
\* both flags set.
C8_Witness ==
    /\ prog = "hello" /\ pc = "polled" /\ pollSawLoss
    /\ session_state = "LOSS_PENDING"
    /\ exit_render_loop /\ request_restart /\ main_request_restart

C10_NoUnhandledSessionNotRunning ==
    ~(pc = "crashed" /\ exc = "SessionNotRunningError")

\* C11: when SessionManager.__exit__ returns, a session that was begun has
\* been ended with end_session and the EXITING state has been observed.
C11_SessionWoundDown ==
    (prog = "ctx" /\ pc = "exit_done" /\ "session_manager" \in Range(created)) =>
        /\ sessionOpen = 0
        /\ sessionEnded => session_state = "EXITING"

\* rel is cre's tail, back to front.
IsReverseOfTail(rel, cre) ==
    /\ Len(rel) <= Len(cre)
    /\ \A i \in 1 .. Len(rel) : rel[i] = cre[Len(cre) + 1 - i]

\* C12: XrContext.__exit__ releases the resources in the exact reverse of the
\* order in which __enter__ created them, and all of them when it returns.
C12_ReleaseReversesCreation ==
    prog = "ctx" =>
        /\ IsReverseOfTail(released, created)
        /\ pc = "done" => released = Reverse(created)

\* A context with graphics has been entered, used and left: all six resources
\* have been released.
C12_Witness ==
    /\ prog = "ctx" /\ pc = "done" /\ ~is_headless
    /\ sessionEnded
    /\ Len(released) = 6 /\ released[1] = "session_manager"

\* C13 as stated: OpenXRProgram.__exit__ destroys the handles in the exact
\* reverse of the order of their creation.
C13_ExitReversesCreation ==
    (prog = "hello" /\ released # <<>>) => IsReverseOfTail(released, created)

\* The place of handle h in the sequence of released handles (0 if absent).
Place(h) ==
    IF h \in Range(released)
    THEN CHOOSE i \in 1 .. Len(released) : released[i] = h
    ELSE 0

\* C13, amended: OpenXRProgram.__exit__ destroys every swapchain, every space
\* and the action set before the session, and the session before the
\* instance, which is the last handle destroyed if it is destroyed at all.
C13_SessionAfterItsChildren ==
    (prog = "hello" /\ released # <<>>) =>
        /\ \A h \in Range(created) \ {"instance"} : Place(h) > 0
        /\ \A h \in Range(created) \ {"session", "instance"} :
              Place(h) < Place("session")
        /\ Place("instance") \in {0, Len(created)}
        /\ Place("session") = Len(created) - 1

\* OpenXRProgram.__exit__ has destroyed all the handles, the instance
\* included, and not in the reverse of the order of creation.
C13_Witness ==
    /\ prog = "hello" /\ pc = "after_with"
    /\ Place("instance") = Len(created)
    /\ released[1] = "hand_space_left"
    /\ created[Len(created)] = "swapchain_1"

\* The event pump is polling: OpenXRProgram.poll_events, or
\* SessionManager._poll_events called by frames or by __exit__.
Pumping ==
    \/ prog = "hello" /\ pc = "poll_events"
    \/ prog = "ctx" /\ pc \in {"loop", "wind_poll"}

\* Where the caller of the event pump goes on when the pump has returned.
AfterPump ==
    CASE prog = "hello" -> "polled"
      [] prog = "ctx" /\ pc = "loop" -> "check"
      [] OTHER -> "wind_check"

\* C14: a poll of the empty queue neither blocks nor raises: the pump can
\* take its step, and that step returns to the caller, which goes on, with no
\* exception in flight.
C14_EmptyPollReturns ==
    /\ [](Pumping /\ queue = <<>> =>
            ENABLED (HelloPollEvents \/ CtxPollEvents \/ CtxWindPoll))
    /\ [][(Pumping /\ queue = <<>> /\ pc' # pc) =>
            (pc' = AfterPump /\ exc' = exc /\ call' = "none" /\ handled' = NoEvent)]_vars

\* SessionManager.frames has found the queue empty and goes on to its tests.
C14_Witness ==
    /\ prog = "ctx" /\ pc = "check" /\ queue = <<>>
    /\ exc = "none" /\ session_running /\ ~exit_render_loop

Headless == prog = "headless" \/ (prog = "ctx" /\ is_headless)

\* C18: in a headless configuration begin_frame and end_frame are never
\* called: of the frame calls only wait_frame is issued.
C18_HeadlessOnlyWaitsFrame ==
    Headless =>
        /\ call \in FrameCalls => call = "wait_frame"
        /\ frameOpen = 0 /\ frameEnds = 0

\* A headless SessionManager has run a whole frame: wait_frame, the body of
\* the caller's loop, and FrameManager.__exit__ without a call.
C18_Witness ==
    /\ prog = "ctx" /\ is_headless
    /\ pc = "loop" /\ frame_count >= 1 /\ call = "none" /\ exc = "none"
    /\ session_running

\* C19: the format chosen is the first entry of the program's list that the
\* runtime enumerates, and the selection ends with an exception if the
\* runtime enumerates none of them.
C19_FirstPreferredFormatWins ==
    pc \in {"selected", "crashed"} =>
        LET first == FirstMatch(Preferred(prog), Range(runtime_formats)) IN
        /\ color_swapchain_format = first
        /\ (pc = "crashed") = (first = "none")
        /\ (exc # "none") = (first = "none")

\* C20: key_press_event is only ever set, never cleared, and the step that
\* sets it, the keyboard thread's, touches nothing else: not the main
\* thread's position, the runtime's session and queue, the program's flags
\* and counters, nor its handles.
C20_KeyboardThreadOnlySignals ==
    [][/\ key_press_event => key_press_event'
       /\ key_press_event' # key_press_event =>
             UNCHANGED <<pc, rtVars, flagVars, main_request_restart, frameVars,
                         loopVars, exc, obsVars, handleVars>>]_vars

\* A key was pressed while the main thread was inside a frame.
C20_Witness ==
    /\ prog = "hello" /\ key_press_event
    /\ pc \in HelloInFrame /\ frameOpen = 1 /\ session_running

\* C21: at no time are two frames open on a session: begin_frame is called
\* only when every earlier begin_frame has been matched by end_frame.
C21_OneFrameOpen ==
    /\ frameOpen \in {0, 1}
    /\ call = "begin_frame" => frameOpen = 1

\* SessionManager.__exit__ has begun a wind-down frame after an exception in
\* the body of the caller's loop closed the frame that frames() had yielded.
C21_Witness ==
    /\ prog = "ctx" /\ ~is_headless
    /\ pc = "wind_body" /\ call = "begin_frame"
    /\ exc = "Exception" /\ frameOpen = 1

\* C22: in hello_xr, OpenXRProgram.__exit__ destroys the session only when
\* every begin_session issued for it has been followed by end_session.
C22_SessionEndedBeforeDestroyed ==
    (prog = "hello" /\ call = "destroy_session") => sessionOpen = 0

\* C23: when XrContext.__exit__ has finished, by returning or by raising,
\* every resource that __enter__ created has been released.
C23_ExitReleasesEverything ==
    (prog = "ctx" /\ pc \in {"done", "crashed"}) =>
        Range(released) = Range(created)

\* C24: an exception raised by a step of XrContext.__enter__ reaches the
\* caller, and by then every resource the earlier steps created has been
\* released.
C24_FailedEnterReleasesAndRaises ==
    (prog = "ctx" /\ exc = "XrException") =>
        /\ pc \in {"exit_done", "crashed"}
        /\ pc = "crashed" => Range(released) = Range(created)

\* The creation of the session manager raised: the five resources created
\* before it have been released and the exception has reached the caller.
C24_Witness ==
    /\ prog = "ctx" /\ pc = "crashed" /\ exc = "XrException"
    /\ Len(created) = 5 /\ Len(released) = 5
    /\ released[1] = "swapchains" /\ released[5] = "instance"

\* C25: when the frame loop was left because the window was closed, main's
\* test after the with block makes it leave, not create a new instance.
C25_WindowCloseTerminates ==
    (prog = "hello" /\ pc = "after_with" /\ window_closed) =>
        (key_press_event \/ ~main_request_restart)

HelloFramePositions ==
    {"poll_actions", "wait_frame", "begin_frame"} \cup HelloInFrame

\* xr_context_foo: the positions of a frame of SessionManager.frames or of
\* the wind-down loop of SessionManager.__exit__.
CtxFramePositions ==
    {"wait_frame", "begin_frame", "wind_wait", "wind_begin"} \cup CtxInFrame

\* C27: while the flag that ends the frame loop is set, the frame loop is in
\* no frame: no wait_frame or begin_frame is issued, and nothing is yielded
\* or rendered.
C27_NoFrameAfterExitFlag ==
    (prog \in {"hello", "ctx"} /\ exit_render_loop) =>
        /\ call \notin {"wait_frame", "begin_frame"}
        /\ prog = "hello" => pc \notin HelloFramePositions
        /\ prog = "ctx" => pc \notin CtxFramePositions

\* hello_xr has left the frame loop on a set flag while its session was
\* running, after a frame had been rendered.
C27_Witness ==
    /\ prog = "hello" /\ pc = "exit" /\ exit_render_loop /\ session_running
    /\ ~window_closed /\ ~key_press_event /\ frameEnds > 0

\* pink_world_one_file: the positions of a frame of the wind-down loop.
PinkWindPositions == {"wind_wait", "wind_begin", "wind_end"}

\* A frame of the frame loop is open in which nothing is to be rendered.
InSkippedFrame ==
    /\ prog \in {"hello", "pink"}
    /\ frameOpen = 1 /\ pc \notin PinkWindPositions
    /\ ~should_render \/ ~poses_valid

\* The last step has ended such a frame.
EndedSkippedFrame ==
    /\ prog \in {"hello", "pink"}
    /\ call = "end_frame" /\ pc = "loop"
    /\ ~should_render \/ ~poses_valid

\* C28: in a frame whose should_render is false or whose view poses are not
\* valid, no swapchain image is acquired, the next thing done is end_frame,
\* and end_frame is called with an empty layer list.
C28_SkippedFrameEndsEmpty ==
    /\ InSkippedFrame =>
          /\ pc = "end_frame"
          /\ view_index = 0 /\ \A v \in Views : imageOut[v] = 0
          /\ layers = <<>>
    /\ EndedSkippedFrame =>
          /\ view_index = 0 /\ \A v \in Views : imageOut[v] = 0
          /\ layers = <<>>

\* C29: the running flag is true exactly when begin_session has been issued
\* for the session and end_session has not been issued since.
C29_RunningFlagFollowsSessionCalls ==
    prog \in {"hello", "ctx", "pink"} => (session_running <=> sessionOpen = 1)

\* A handler has just answered STOPPING with end_session after the session
\* had been begun, and the flag is down.
C29_Witness ==
    /\ prog \in {"hello", "ctx", "pink"}
    /\ handled = StateEvent("STOPPING") /\ call = "end_session"
    /\ sessionEnded /\ sessionOpen = 0 /\ ~session_running

\* C30: a state-changed event of another session changes nothing in
\* OpenXRProgram: session_state, session_running and the two flags keep
\* their values and neither begin_session nor end_session is issued.
C30_ForeignEventChangesNothing ==
    [][(pc = "handle" /\ Head(queue).type = "SESSION_STATE_CHANGED_OTHER_SESSION") =>
          /\ session_state' = session_state
          /\ session_running' = session_running
          /\ exit_render_loop' = exit_render_loop
          /\ request_restart' = request_restart
          /\ call' \notin {"begin_session", "end_session"}]_vars

====
